---- MODULE Spec2Model ----
(***************************************************************************)
(* NT News (src/app.py, the `develop` side of the file): the fetch /       *)
(* normalize / merge / sort pipeline behind the Streamlit page.            *)
(*                                                                         *)
(* Python values are tagged records, so that a dict, a list, a str and     *)
(* None stay distinguishable (TLA+ identifies the empty function with the  *)
(* empty sequence):                                                        *)
(*    None        [kind |-> "null"]                                        *)
(*    str         [kind |-> "str",  chars |-> <<"a", "b">>]                *)
(*    list        [kind |-> "list", elems |-> <<v1, v2>>]                  *)
(*    dict        [kind |-> "dict", items |-> [key |-> value]]             *)
(*    a raised exception  [kind |-> "raise", exc |-> "AttributeError"]     *)
(* A str is the sequence of its characters, so that comparison, strip and  *)
(* strptime work on what the string holds.                                 *)
(*                                                                         *)
(* Three specifications:                                                   *)
(*    Spec           the page: script runs, searches, the worker threads   *)
(*                   of fetch_all_news, the three caches and the clock; a  *)
(*                   request is one step that returns a body or fails      *)
(*    NormalizeSpec  normalize_articles on batches of raw records          *)
(*    HttpSpec       one make_request call, GET by GET, under the retry    *)
(*                   policy mounted on SESSION                             *)
(***************************************************************************)
EXTENDS Integers, Sequences, FiniteSets, TLC

(***************************************************************************)
(* Python values                                                           *)
(***************************************************************************)
None == [kind |-> "null"]

Str(cs) == [kind |-> "str", chars |-> cs]

List(es) == [kind |-> "list", elems |-> es]

Dict(f) == [kind |-> "dict", items |-> f]

Raise(e) == [kind |-> "raise", exc |-> e]

EmptyList == List(<<>>)

EmptyDict == Dict(<<>>)

IsRaise(v) == v.kind = "raise"

IsStr(v) == v.kind = "str"

\* Python truthiness of the values the program tests with `if`, `or`, `not`.
Truthy(v) ==
  CASE v.kind = "null" -> FALSE
    [] v.kind = "str" -> v.chars # <<>>
    [] v.kind = "list" -> v.elems # <<>>
    [] v.kind = "dict" -> DOMAIN v.items # {}
    [] OTHER -> TRUE

\* d.get(key, default): only a dict has .get; on a list, a str or None the
\* attribute lookup raises AttributeError.
Get(d, key, default) ==
  IF d.kind = "raise" THEN d
  ELSE IF d.kind # "dict" THEN Raise("AttributeError")
  ELSE IF key \in DOMAIN d.items THEN d.items[key]
  ELSE default

(***************************************************************************)
(* Characters and string comparison (Python compares str by code point)    *)
(***************************************************************************)
Ascii ==
  <<
     " ", "!", "\"", "#", "$", "%", "&", "'", "(", ")", "*", "+", ",", "-", ".", "/",
     "0", "1", "2", "3", "4", "5", "6", "7", "8", "9", ":", ";", "<", "=", ">", "?",
     "@", "A", "B", "C", "D", "E", "F", "G", "H", "I", "J", "K", "L", "M", "N", "O",
     "P", "Q", "R", "S", "T", "U", "V", "W", "X", "Y", "Z", "[", "\\", "]", "^", "_",
     "GRAVE", "a", "b", "c", "d", "e", "f", "g", "h", "i", "j", "k", "l", "m", "n", "o",
     "p", "q", "r", "s", "t", "u", "v", "w", "x", "y", "z", "{", "|", "}", "~"
  >>

\* ord(c) for the printable ASCII characters (code 96, the grave accent, is
\* spelled "GRAVE": the lexer does not take it inside a string).
Ord(c) == 31 + (CHOOSE i \in 1..Len(Ascii) : Ascii[i] = c)

Min(a, b) == IF a <= b THEN a ELSE b

\* a < b for two str: the first differing code point decides, a proper
\* prefix is smaller.
StrLess(a, b) ==
  LET n == Min(Len(a), Len(b))
      diff == {i \in 1..n : a[i] # b[i]}
  IN  IF diff = {} THEN Len(a) < Len(b)
      ELSE LET i == CHOOSE j \in diff : \A k \in diff : j <= k
           IN  Ord(a[i]) < Ord(b[i])

Whitespace == {" "}

RECURSIVE LStrip(_)
LStrip(cs) ==
  IF cs # <<>> /\ Head(cs) \in Whitespace THEN LStrip(Tail(cs)) ELSE cs

RECURSIVE RStrip(_)
RStrip(cs) ==
  IF cs # <<>> /\ cs[Len(cs)] \in Whitespace
  THEN RStrip(SubSeq(cs, 1, Len(cs) - 1))
  ELSE cs

\* str.strip()
Strip(cs) == RStrip(LStrip(cs))

Lower == 97..122

\* str.upper() on one character, and on a str.
UpperChar(c) == IF Ord(c) \in Lower THEN Ascii[Ord(c) - 32 - 31] ELSE c

Upper(cs) == [i \in DOMAIN cs |-> UpperChar(cs[i])]

(***************************************************************************)
(* datetime.strptime(s, "%Y-%m-%dT%H:%M:%S%z") and strftime("%Y-%m-%d")    *)
(*                                                                         *)
(* strptime compiles the format to a regular expression (IGNORECASE) and   *)
(* matches it against the whole string:                                    *)
(*   %Y \d\d\d\d           %m 1[0-2]|0[1-9]|[1-9]                          *)
(*   %d 3[01]|[12]\d|0[1-9]|[1-9]| [1-9]                                   *)
(*   %H 2[0-3]|[01]\d|\d   %M [0-5]\d|\d     %S 6[01]|[0-5]\d|\d           *)
(*   %z [+-]\d\d:?[0-5]\d(:?[0-5]\d(\.\d{1,6})?)?|Z                        *)
(* Every numeric field is followed by a literal that is no digit, so a     *)
(* field is the whole run of digits in front of that literal.  The fields  *)
(* then go to the datetime constructor, which refuses year 0, a day the    *)
(* month does not have, a second above 59 and a UTC offset of 24 hours or  *)
(* more.                                                                   *)
(***************************************************************************)
Digits == {"0", "1", "2", "3", "4", "5", "6", "7", "8", "9"}

DigitVal(c) == Ord(c) - 48

CharAt(s, i) == IF i \in 1..Len(s) THEN s[i] ELSE "EOS"

IsDigitAt(s, i) == CharAt(s, i) \in Digits

\* int(s[i : i + n]) for n digits.
RECURSIVE Num(_, _, _)
Num(s, i, n) ==
  IF n = 0 THEN 0 ELSE 10 * Num(s, i, n - 1) + DigitVal(s[i + n - 1])

NoMatch == [ok |-> FALSE, next |-> 0, val |-> 0]

\* A field of one or two digits at i whose value lies in lo..hi (one digit:
\* lo..9): the alternatives of %m (1, 12), %H (0, 23), %M (0, 59), %S (0, 61).
Field(s, i, lo, hi) ==
  IF IsDigitAt(s, i) /\ IsDigitAt(s, i + 1)
  THEN LET v == Num(s, i, 2)
       IN  IF lo <= v /\ v <= hi
           THEN [ok |-> TRUE, next |-> i + 2, val |-> v]
           ELSE NoMatch
  ELSE IF IsDigitAt(s, i) /\ lo <= DigitVal(s[i])
  THEN [ok |-> TRUE, next |-> i + 1, val |-> DigitVal(s[i])]
  ELSE NoMatch

\* %d: as Field(1, 31), or a blank and one digit 1..9.
DayField(s, i) ==
  IF CharAt(s, i) = " " /\ IsDigitAt(s, i + 1) /\ CharAt(s, i + 1) # "0"
  THEN [ok |-> TRUE, next |-> i + 2, val |-> DigitVal(s[i + 1])]
  ELSE Field(s, i, 1, 31)

IsMinSecAt(s, i) ==
  CharAt(s, i) \in {"0", "1", "2", "3", "4", "5"} /\ IsDigitAt(s, i + 1)

\* The digits of an optional fraction ".d{1,6}" at i reach the end of s.
FractionToEnd(s, i) ==
  /\ CharAt(s, i) = "."
  /\ Len(s) - i \in 1..6
  /\ \A j \in (i + 1)..Len(s) : s[j] \in Digits

\* %z at i, to the end of the string.  The offset's colons are all there or
\* all absent ("Inconsistent use of :"), and the offset is below 24 hours.
ZoneToEnd(s, i) ==
  IF CharAt(s, i) = "Z" THEN i = Len(s)
  ELSE
    /\ CharAt(s, i) \in {"+", "-"}
    /\ IsDigitAt(s, i + 1)
    /\ IsDigitAt(s, i + 2)
    /\ LET c1 == IF CharAt(s, i + 3) = ":" THEN 1 ELSE 0
           q == i + 3 + c1
           r == q + 2
           c2 == IF CharAt(s, r) = ":" THEN 1 ELSE 0
           u == r + c2
           hh == Num(s, i + 1, 2)
       IN  /\ IsMinSecAt(s, q)
           /\ hh < 24
           /\ \/ r = Len(s) + 1
              \/ /\ IsMinSecAt(s, u)
                 /\ c1 = c2
                 /\ u + 2 = Len(s) + 1 \/ FractionToEnd(s, u + 2)

IsLeap(y) == (y % 4 = 0 /\ y % 100 # 0) \/ y % 400 = 0

DaysInMonth(y, m) ==
  IF m = 2 THEN (IF IsLeap(y) THEN 29 ELSE 28)
  ELSE IF m \in {4, 6, 9, 11} THEN 30
  ELSE 31

\* The parsed date, or ok = FALSE where strptime raises ValueError.
Strptime(s) ==
  LET bad == [ok |-> FALSE, year |-> 0, month |-> 0, day |-> 0]
      m == Field(s, 6, 1, 12)
      d == DayField(s, m.next + 1)
      H == Field(s, d.next + 1, 0, 23)
      M == Field(s, H.next + 1, 0, 59)
      S == Field(s, M.next + 1, 0, 61)
      year == Num(s, 1, 4)
  IN  IF ~(\A i \in 1..4 : IsDigitAt(s, i)) \/ CharAt(s, 5) # "-" THEN bad
      ELSE IF ~m.ok \/ CharAt(s, m.next) # "-" THEN bad
      ELSE IF ~d.ok \/ CharAt(s, d.next) \notin {"T", "t"} THEN bad
      ELSE IF ~H.ok \/ CharAt(s, H.next) # ":" THEN bad
      ELSE IF ~M.ok \/ CharAt(s, M.next) # ":" THEN bad
      ELSE IF ~S.ok \/ ~ZoneToEnd(s, S.next) THEN bad
      ELSE IF year < 1 \/ d.val > DaysInMonth(year, m.val) \/ S.val > 59 THEN bad
      ELSE [ok |-> TRUE, year |-> year, month |-> m.val, day |-> d.val]

DigitChar(n) == Ascii[n + 48 - 31]

\* str(n) for n >= 0.
RECURSIVE IntChars(_)
IntChars(n) ==
  IF n < 10 THEN <<DigitChar(n)>>
  ELSE Append(IntChars(n \div 10), DigitChar(n % 10))

Pad2(n) == <<DigitChar(n \div 10), DigitChar(n % 10)>>

\* dt.strftime("%Y-%m-%d"): the C library's %Y does not pad the year.
Strftime(dt) ==
  IntChars(dt.year) \o <<"-">> \o Pad2(dt.month) \o <<"-">> \o Pad2(dt.day)

\* The try/except around strptime: a value that is no str (TypeError) or does
\* not parse (ValueError) is left as it is.
NormalizePublished(v) ==
  IF IsStr(v) /\ Strptime(v.chars).ok THEN Str(Strftime(Strptime(v.chars)))
  ELSE v

(***************************************************************************)
(* Source configuration (fetch_news.sources)                               *)
(***************************************************************************)
SrcNEWS == <<"N", "E", "W", "S">>

SrcGUARDIAN == <<"G", "U", "A", "R", "D", "I", "A", "N">>

\* The keys of the `sources` dict of fetch_news; fetch_all_news lists the same
\* two names.
Sources == {SrcNEWS, SrcGUARDIAN}

\* config["results_key"].split("."): "articles" and "response.results".
ResultsPath(source) ==
  IF source = SrcNEWS THEN <<"articles">> ELSE <<"response", "results">>

\* f"{source.upper()}_API_KEY"
ApiKeyVar(source) ==
  Upper(source) \o <<"_", "A", "P", "I", "_", "K", "E", "Y">>

\* What st.cache_data hashes for make_request(url, params): both are fixed by
\* the source, the query and the API key, and the key does not change while
\* the process runs.
RequestKey(source, query) == <<source, query>>

\* The loop `for key in path: data = data.get(key, [])` of fetch_news.
RECURSIVE ExtractResults(_, _)
ExtractResults(data, path) ==
  IF path = <<>> \/ IsRaise(data) THEN data
  ELSE ExtractResults(Get(data, Head(path), EmptyList), Tail(path))

(***************************************************************************)
(* normalize_articles                                                      *)
(***************************************************************************)
UnknownDate ==
  Str(<<"U", "n", "k", "n", "o", "w", "n", " ", "D", "a", "t", "e">>)

TheGuardian ==
  Str(<<"T", "h", "e", " ", "G", "u", "a", "r", "d", "i", "a", "n">>)

EmptyStr == Str(<<>>)

ArticleFields ==
  <<"title", "author", "published", "description", "url", "content">>

\* The dict literal built for one raw record; its entries are evaluated in
\* order and the first .get that raises ends the call.
RawContent(art, source) ==
  IF source = SrcNEWS
  THEN [title |-> Get(art, "title", EmptyStr),
        author |-> Get(Get(art, "source", EmptyDict), "name", Str(source)),
        published |-> Get(art, "publishedAt", UnknownDate),
        description |-> Get(art, "description", EmptyStr),
        url |-> Get(art, "url", EmptyStr),
        content |-> Get(art, "content", EmptyStr)]
  ELSE [title |-> Get(art, "webTitle", EmptyStr),
        author |-> IF art.kind = "dict" THEN TheGuardian
                   ELSE Raise("AttributeError"),
        published |-> Get(art, "webPublicationDate", UnknownDate),
        description |-> Get(Get(art, "fields", EmptyDict), "trailText", EmptyStr),
        url |-> Get(art, "webUrl", EmptyStr),
        content |-> Get(Get(art, "fields", EmptyDict), "trailText", EmptyStr)]

\* One pass of the loop body for a supported source: the normalized article,
\* or the exception the body raises.
NormalizeOne(art, source) ==
  LET c == RawContent(art, source)
      raised == {i \in 1..Len(ArticleFields) : IsRaise(c[ArticleFields[i]])}
  IN  IF raised # {}
      THEN c[ArticleFields[CHOOSE i \in raised : \A j \in raised : i <= j]]
      ELSE Dict([c EXCEPT !.published = NormalizePublished(c.published)])

\* What `for art in articles` iterates over: the elements of a list, the keys
\* of a dict (each a str), the characters of a str; None is not iterable.
IterElems(v) ==
  CASE v.kind = "list" -> v.elems
    [] v.kind = "str" -> [i \in DOMAIN v.chars |-> Str(<<v.chars[i]>>)]
    [] v.kind = "dict" ->
         LET RECURSIVE Keys(_)
             Keys(S) ==
               IF S = {} THEN <<>>
               ELSE LET k == CHOOSE x \in S : TRUE
                    IN  <<Str(<<k>>)>> \o Keys(S \ {k})
         IN  Keys(DOMAIN v.items)
    [] OTHER -> <<>>

RECURSIVE NormalizeLoop(_, _, _)
NormalizeLoop(elems, source, normalized) ==
  IF elems = <<>> THEN List(normalized)
  ELSE IF source \notin Sources
  THEN NormalizeLoop(Tail(elems), source, normalized)
  ELSE LET a == NormalizeOne(Head(elems), source)
       IN  IF IsRaise(a) THEN a
           ELSE NormalizeLoop(Tail(elems), source, Append(normalized, a))

normalize_articles(articles, source) ==
  IF IsRaise(articles) THEN articles
  ELSE IF articles.kind = "null" THEN Raise("TypeError")
  ELSE NormalizeLoop(IterElems(articles), source, <<>>)

(***************************************************************************)
(* sorted(results, key=lambda x: x["published"], reverse=True)             *)
(***************************************************************************)
Published(a) == a.items.published

Reverse(xs) == [i \in 1..Len(xs) |-> xs[Len(xs) + 1 - i]]

\* x goes behind every element that is not greater than it: a stable insert.
RECURSIVE InsertAsc(_, _)
InsertAsc(sorted, x) ==
  IF sorted = <<>> THEN <<x>>
  ELSE IF StrLess(Published(x).chars, Published(Head(sorted)).chars)
  THEN <<x>> \o sorted
  ELSE <<Head(sorted)>> \o InsertAsc(Tail(sorted), x)

RECURSIVE StableAsc(_, _)
StableAsc(xs, sorted) ==
  IF xs = <<>> THEN sorted
  ELSE StableAsc(Tail(xs), InsertAsc(sorted, Head(xs)))

\* An order that keeps equal keys in reverse: what sorted(xs)[::-1] would do.
SortedDescReversing(xs) == Reverse(StableAsc(xs, <<>>))

\* list.sort(reverse=True) reverses the list, sorts it ascending and stably,
\* and reverses it again, so equal keys keep their order.
SortedDescStable(xs) == Reverse(StableAsc(Reverse(xs), <<>>))

\* The sort of main.  Every element of a list of two or more is compared at
\* least once, and `<` between None and anything raises TypeError.
SortedDesc(results) ==
  IF Len(results.elems) >= 2
     /\ \E i \in 1..Len(results.elems) : ~IsStr(Published(results.elems[i]))
  THEN Raise("TypeError")
  ELSE List(SortedDescStable(results.elems))

(***************************************************************************)
(* What the providers may answer                                           *)
(***************************************************************************)
D16 == <<"2", "0", "2", "5", "-", "0", "2", "-", "1", "6">>

D14 == <<"2", "0", "2", "5", "-", "0", "2", "-", "1", "4">>

T16 == D16 \o <<"T", "0", "9", ":", "0", "0", ":", "0", "5", "Z">>

T14 == D14 \o <<"T", "0", "8", ":", "0", "0", ":", "0", "0", "Z">>

RawN16 ==
  Dict([title |-> Str(<<"n", "1">>),
        source |-> Dict([id |-> None, name |-> Str(<<"B", "B", "C">>)]),
        publishedAt |-> Str(T16),
        description |-> Str(<<"d", "1">>),
        url |-> Str(<<"u", "1">>)])

\* No publishedAt, no source.
RawNUndated == Dict([title |-> Str(<<"n", "2">>), url |-> Str(<<"u", "2">>)])

\* "source": null
RawNNullSource ==
  Dict([title |-> Str(<<"n", "3">>), source |-> None, publishedAt |-> Str(T14)])

\* The same story as RawN16, under the same address.
RawG16 ==
  Dict([webTitle |-> Str(<<"g", "1">>),
        webPublicationDate |-> Str(T16),
        fields |-> Dict([trailText |-> Str(<<"t", "1">>)]),
        webUrl |-> Str(<<"u", "1">>)])

RawG14 ==
  Dict([webTitle |-> Str(<<"g", "2">>),
        webPublicationDate |-> Str(T14),
        webUrl |-> Str(<<"w", "2">>)])

Ok == Str(<<"o", "k">>)

NewsResponses ==
  {Dict([status |-> Ok, articles |-> List(<<RawN16, RawNUndated>>)]),
   Dict([status |-> Ok, articles |-> List(<<RawNNullSource>>)])}

GuardianResponses ==
  {Dict([response |-> Dict([status |-> Ok])]),
   Dict([response |-> Dict([status |-> Ok, results |-> List(<<RawG14>>)])]),
   Dict([response |-> Dict([status |-> Ok, results |-> List(<<RawG16, RawG14>>)])])}

\* The JSON bodies a 2xx answer of the provider may carry.
Responses(source) ==
  IF source = SrcNEWS THEN NewsResponses ELSE GuardianResponses

\* SESSION.get / raise_for_status / r.json() either yield a body or raise
\* (timeout, connection error, a non-2xx status once the retries are spent).
Failure == Raise("RequestException")

Outcomes(source) == Responses(source) \cup {Failure}

(***************************************************************************)
(* The form of main                                                        *)
(***************************************************************************)
ProvAll == <<"A", "l", "l">>

ProvNews == <<"N", "e", "w", "s">>

ProvGuardian == <<"G", "u", "a", "r", "d", "i", "a", "n">>

Providers == {ProvAll, ProvNews, ProvGuardian}

TopicAll == <<"A", "l", "l">>

\* What the user types and selects: nothing at all, or a blank keyword with
\* the topic "T" (the query " T", blanks to be stripped).
Forms == {<<<<>>, TopicAll>>, <<<<" ">>, <<"T">>>>}

\* query = f"{kw} {topic}" if topic != "All" else kw
QueryOf(kw, topic) == IF topic # TopicAll THEN kw \o <<" ">> \o topic ELSE kw

\* The queries fetch_news can be called with: the stripped form queries, and
\* the default "" of the call at the end of main.
Queries == {Strip(QueryOf(fm[1], fm[2])) : fm \in Forms} \cup {<<>>}

(***************************************************************************)
(* st.cache_data(ttl=300)                                                  *)
(***************************************************************************)
TTL == 300

Absent == [present |-> FALSE, value |-> None, ins |-> 0]

Entry(v, now) == [present |-> TRUE, value |-> v, ins |-> now]

\* A lookup that finds nothing usable: what a cache without memory would do.
NeverFresh(e, now) == FALSE

\* An entry is served while fewer than ttl seconds have passed since it was
\* stored; reading it does not move that time.
Fresh(e, now) == e.present /\ now < e.ins + TTL

Lookup(cache, key) == IF key \in DOMAIN cache THEN cache[key] ELSE Absent

Store(cache, key, v, now) ==
  [k \in DOMAIN cache \cup {key} |->
     IF k = key THEN Entry(v, now) ELSE cache[k]]

(***************************************************************************)
(* Bounds of the model                                                     *)
(***************************************************************************)
\* Script runs (page loads, searches, clears) in one behaviour.
MaxRuns == 2

\* Advances of the wall clock in one behaviour.
MaxTicks == 2

\* The clock moves by a second or by just under the TTL, so that an entry is
\* seen one second before, at and after its expiry.
TickSteps == {1, TTL - 1}

(***************************************************************************)
(* State                                                                   *)
(***************************************************************************)
MainThread == <<"main">>

\* The script thread, and one pool worker per source of fetch_all_news.
Threads == {MainThread} \cup Sources

VARIABLES
  env,        \* the names of the environment variables that are set
  clock,      \* wall-clock time, in seconds
  ticks,      \* how often the clock has advanced
  runs,       \* how many script runs have started
  reqCache,   \* the cache of make_request
  newsCache,  \* the cache of fetch_news
  normCache,  \* the cache of normalize_articles
  sess,       \* st.session_state.state
  pc,         \* where the script run stands
  form,       \* the submitted form: kw, topic, provider
  results,    \* the local `results` of main
  warnings,   \* st.warning calls of this run
  exc,        \* the exception that ended this run, if any
  fetch,      \* per thread: its fetch_news call
  collected,  \* the futures as_completed has yielded
  sent,       \* per source: SESSION.get calls of this run
  started,    \* per source: executor.submit calls of this run
  lastCall,   \* per (source, query): the previous fetch_news call
  call,       \* a call of normalize_articles taken by itself
  http        \* a call of make_request taken by itself, attempt by attempt

vars ==
  <<env, clock, ticks, runs, reqCache, newsCache, normCache, sess, pc, form,
    results, warnings, exc, fetch, collected, sent, started, lastCall, call,
    http>>

\* The state of the application, as opposed to that of the functions that are
\* also looked at in isolation.
app ==
  <<env, clock, ticks, runs, reqCache, newsCache, normCache, sess, pc, form,
    results, warnings, exc, fetch, collected, sent, started, lastCall>>

Isolated == <<call, http>>

IdleCall == [status |-> "idle", articles |-> None, source |-> <<>>, out |-> None]

IdleHttp ==
  [state |-> "idle", total |-> 0, attempts |-> 0, log |-> <<>>, result |-> None]

NoExc == [at |-> "none", e |-> None]

IdleFetch ==
  [status |-> "idle", source |-> <<>>, query |-> <<>>, data |-> None,
   ret |-> None, start |-> 0, reqs |-> 0, netFailed |-> FALSE,
   servedIns |-> -1, expired |-> FALSE, prevAt |-> -1, prevReqs |-> 0,
   prevFailAt |-> -1]

Queued(source, q) == [IdleFetch EXCEPT !.status = "queued", !.source = source, !.query = q]

InitSess == [kw |-> <<>>, topic |-> TopicAll, provider |-> ProvAll, articles |-> None]

NoForm == [kw |-> <<>>, topic |-> TopicAll, provider |-> ProvAll, submitted |-> FALSE]

InitApp ==
  /\ env \in SUBSET {ApiKeyVar(s) : s \in Sources}
  /\ clock = 0
  /\ ticks = 0
  /\ runs = 0
  /\ reqCache = <<>>
  /\ newsCache = <<>>
  /\ normCache = <<>>
  /\ sess = InitSess
  /\ pc = "idle"
  /\ form = NoForm
  /\ results = EmptyList
  /\ warnings = 0
  /\ exc = NoExc
  /\ fetch = [t \in Threads |-> IdleFetch]
  /\ collected = {}
  /\ sent = [s \in Sources |-> 0]
  /\ started = [s \in Sources |-> 0]
  /\ lastCall = [k \in Sources \X Queries |->
                   [at |-> -1, reqs |-> 0, failAt |-> -1]]

Init ==
  /\ InitApp
  /\ call = IdleCall
  /\ http = IdleHttp

(***************************************************************************)
(* fetch_news, as one thread runs it                                       *)
(***************************************************************************)
\* A key check that always passes: fetch_news without its early return.
HasApiKeyUnchecked(source, environ) == TRUE

\* api_key = os.getenv(...); `if not api_key`
HasApiKey(source, environ) == ApiKeyVar(source) \in environ

\* From the data make_request returned to the end of fetch_news: the
\* extraction loop and the cached normalize_articles.  ret is the list
\* returned or the exception raised.
fetch_news_tail(source, data, norm, now) ==
  LET arts == ExtractResults(data, ResultsPath(source))
      nk == <<arts, source>>
      hit == ~IsRaise(arts) /\ Fresh(Lookup(norm, nk), now)
      out == IF IsRaise(arts) THEN arts
             ELSE IF hit THEN Lookup(norm, nk).value
             ELSE normalize_articles(arts, source)
  IN  [ret |-> out,
       norm |-> IF IsRaise(out) \/ hit THEN norm ELSE Store(norm, nk, out, now)]

\* The thread's call has ended with `out` (a list, or an exception, which the
\* cache does not store).
Finish(t, f, out, norm) ==
  LET key == <<f.source, f.query>>
  IN  /\ fetch' = [fetch EXCEPT ![t] =
                     [f EXCEPT !.status = IF IsRaise(out) THEN "failed" ELSE "done",
                               !.ret = out]]
      /\ newsCache' = IF IsRaise(out) THEN newsCache
                      ELSE Store(newsCache, key, out, clock)
      /\ normCache' = norm
      /\ lastCall' =
           [lastCall EXCEPT ![key] =
              [at |-> f.start, reqs |-> f.reqs,
               failAt |-> IF f.reqs = 0 THEN @.failAt
                          ELSE IF f.netFailed THEN clock
                          ELSE -1]]

\* The thread enters fetch_news and runs to its end or to the network call.
fetch_news(t) ==
  /\ fetch[t].status = "queued"
  /\ LET key == <<fetch[t].source, fetch[t].query>>
         e == Lookup(newsCache, key)
         r == Lookup(reqCache, RequestKey(fetch[t].source, fetch[t].query))
         f == [fetch[t] EXCEPT !.start = clock,
                               !.expired = e.present /\ ~Fresh(e, clock),
                               !.prevAt = lastCall[key].at,
                               !.prevReqs = lastCall[key].reqs,
                               !.prevFailAt = lastCall[key].failAt]
     IN  IF Fresh(e, clock)
         THEN /\ fetch' = [fetch EXCEPT ![t] =
                             [f EXCEPT !.status = "done", !.ret = e.value,
                                       !.servedIns = e.ins]]
              /\ lastCall' = [lastCall EXCEPT ![key] =
                                 [@ EXCEPT !.at = clock, !.reqs = 0]]
              /\ UNCHANGED <<newsCache, normCache, reqCache, sent>>
         ELSE IF ~HasApiKey(f.source, env)
         THEN /\ Finish(t, f, EmptyList, normCache)
              /\ UNCHANGED <<reqCache, sent>>
         ELSE IF Fresh(r, clock)
         THEN LET tail == fetch_news_tail(f.source, r.value, normCache, clock)
              IN  /\ Finish(t, [f EXCEPT !.data = r.value], tail.ret, tail.norm)
                  /\ UNCHANGED <<reqCache, sent>>
         ELSE /\ fetch' = [fetch EXCEPT ![t] = [f EXCEPT !.status = "net", !.reqs = 1]]
              /\ sent' = [sent EXCEPT ![f.source] = @ + 1]
              /\ UNCHANGED <<newsCache, normCache, reqCache, lastCall>>
  /\ UNCHANGED <<Isolated, env, clock, ticks, runs, sess, pc, form, results, warnings,
                 exc, collected, started>>

\* A make_request without its except clause: the exception leaves it.
Uncaught(outcome) == outcome

\* try: ... return r.json()  except Exception: ... return {}
Caught(outcome) == IF IsRaise(outcome) THEN EmptyDict ELSE outcome

\* SESSION.get returns or raises; make_request turns an exception into {} and
\* what it returns is cached, {} like a body (a call that raises would leave
\* nothing in the cache); fetch_news runs to its end.
make_request(t, outcome) ==
  /\ fetch[t].status = "net"
  /\ LET f == fetch[t]
         data == Caught(outcome)
         tail == fetch_news_tail(f.source, data, normCache, clock)
     IN  /\ reqCache' =
              IF IsRaise(data) THEN reqCache
              ELSE Store(reqCache, RequestKey(f.source, f.query), data, clock)
         /\ Finish(t, [f EXCEPT !.data = data, !.netFailed = IsRaise(outcome)],
                   tail.ret, tail.norm)
  /\ UNCHANGED <<Isolated, env, clock, ticks, runs, sess, pc, form, results, warnings,
                 exc, collected, sent, started>>

(***************************************************************************)
(* fetch_all_news                                                          *)
(***************************************************************************)
\* A loop body without the try/except: the task's exception propagates.
MergedUnguarded(acc, out) ==
  IF IsRaise(out) THEN out ELSE List(acc.elems \o out.elems)

\* A merge that leaves out an article whose url the list already has.
MergedDedup(acc, out) ==
  IF IsRaise(out) THEN acc
  ELSE LET RECURSIVE Add(_, _)
           Add(xs, ys) ==
             IF ys = <<>> THEN xs
             ELSE IF \E i \in 1..Len(xs) : xs[i].items.url = Head(ys).items.url
             THEN Add(xs, Tail(ys))
             ELSE Add(Append(xs, Head(ys)), Tail(ys))
       IN  List(Add(acc.elems, out.elems))

\* try: results.extend(future.result())  except Exception: continue
Merged(acc, out) ==
  IF IsRaise(out) THEN acc ELSE List(acc.elems \o out.elems)

\* Leaving as soon as one future has been yielded.
JoinFirst(yielded) == yielded # {}

\* The for loop over as_completed ends when every future has been yielded,
\* and leaving the `with` block waits for every worker.
JoinAll(yielded) == yielded = Sources

Running(t) == fetch[t].status \in {"queued", "net"}

Ended(t) == fetch[t].status \in {"done", "failed"}

RunLocals == <<form, results, warnings, exc, collected, started>>

Caches == <<reqCache, newsCache, normCache, lastCall>>

\* The user submits the search form: main computes the query and either
\* hands one fetch_news task per source to the pool or calls fetch_news
\* itself.
Submit(kw, topic, provider) ==
  /\ pc = "idle"
  /\ runs < MaxRuns
  /\ runs' = runs + 1
  /\ form' = [kw |-> kw, topic |-> topic, provider |-> provider, submitted |-> TRUE]
  /\ LET q == Strip(QueryOf(kw, topic))
     IN  IF provider = ProvAll
         THEN /\ pc' = "all"
              /\ fetch' = [t \in Threads |->
                             IF t \in Sources THEN Queued(t, q) ELSE fetch[t]]
              /\ started' = [s \in Sources |-> started[s] + 1]
         ELSE /\ pc' = "single"
              /\ fetch' = [fetch EXCEPT ![MainThread] = Queued(Upper(provider), q)]
              /\ UNCHANGED started
  /\ UNCHANGED <<Isolated, env, clock, ticks, sess, results, warnings, exc, collected,
                 sent, Caches>>

\* as_completed yields a finished future: one that finished while the loop
\* waited, or any of those that had finished before (it keeps them in a set).
fetch_all_news_collect(s) ==
  /\ pc = "all"
  /\ s \in Sources \ collected
  /\ Ended(s)
  /\ LET m == Merged(results, fetch[s].ret)
     IN  IF IsRaise(m)
         THEN /\ exc' = [at |-> "search", e |-> m]
              /\ pc' = "end"
              /\ UNCHANGED <<results, collected>>
         ELSE /\ results' = m
              /\ collected' = collected \cup {s}
              /\ UNCHANGED <<exc, pc>>
  /\ UNCHANGED <<Isolated, env, clock, ticks, runs, sess, form, warnings, fetch, sent,
                 started, Caches>>

\* fetch_all_news returns.
fetch_all_news_return ==
  /\ pc = "all"
  /\ JoinAll(collected)
  /\ pc' = "post"
  /\ UNCHANGED <<Isolated, env, clock, ticks, runs, sess, fetch, sent, RunLocals, Caches>>

\* The single provider's fetch_news call returns to main, or raises.
SingleReturn ==
  /\ pc = "single"
  /\ Ended(MainThread)
  /\ IF fetch[MainThread].status = "failed"
     THEN /\ exc' = [at |-> "search", e |-> fetch[MainThread].ret]
          /\ pc' = "end"
          /\ UNCHANGED results
     ELSE /\ results' = fetch[MainThread].ret
          /\ pc' = "post"
          /\ UNCHANGED exc
  /\ UNCHANGED <<Isolated, env, clock, ticks, runs, sess, form, warnings, fetch,
                 collected, sent, started, Caches>>

(***************************************************************************)
(* main, after the fetch                                                   *)
(***************************************************************************)
\* A test for "not None" in place of the truth test.
HasResultsNotNone(res) == res.kind # "null"

\* `if results:`
HasResults(res) == Truthy(res)

\* Store the sorted list and the keyword, or warn.
Post ==
  /\ pc = "post"
  /\ IF HasResults(results)
     THEN LET srt == SortedDesc(results)
          IN  IF IsRaise(srt)
              THEN /\ exc' = [at |-> "post", e |-> srt]
                   /\ pc' = "end"
                   /\ UNCHANGED <<sess, warnings>>
              ELSE /\ sess' = [sess EXCEPT !.kw = form.kw, !.articles = srt]
                   /\ pc' = "render"
                   /\ UNCHANGED <<exc, warnings>>
     ELSE /\ warnings' = warnings + 1
          /\ pc' = "render"
          /\ UNCHANGED <<exc, sess>>
  /\ UNCHANGED <<Isolated, env, clock, ticks, runs, form, results, fetch, collected,
                 sent, started, Caches>>

\* articles = st.session_state.state["articles"] or fetch_news("NEWS")
Render ==
  /\ pc = "render"
  /\ IF Truthy(sess.articles)
     THEN pc' = "end" /\ UNCHANGED fetch
     ELSE /\ pc' = "headlines"
          /\ fetch' = [fetch EXCEPT ![MainThread] = Queued(SrcNEWS, <<>>)]
  /\ UNCHANGED <<Isolated, env, clock, ticks, runs, sess, sent, RunLocals, Caches>>

\* The fetch_news("NEWS") of the last lines returns, or raises.
HeadlinesReturn ==
  /\ pc = "headlines"
  /\ Ended(MainThread)
  /\ pc' = "end"
  /\ exc' = IF fetch[MainThread].status = "failed"
            THEN [at |-> "render", e |-> fetch[MainThread].ret]
            ELSE exc
  /\ UNCHANGED <<Isolated, env, clock, ticks, runs, sess, form, results, warnings, fetch,
                 collected, sent, started, Caches>>

\* A run of the script without a submitted form (the first page load, a
\* rerun): the `if submitted` block is skipped.
Load ==
  /\ pc = "idle"
  /\ runs < MaxRuns
  /\ runs' = runs + 1
  /\ pc' = "render"
  /\ UNCHANGED <<Isolated, env, clock, ticks, sess, fetch, sent, RunLocals, Caches>>

\* The Clear button: st.session_state.clear() and st.rerun(); the rerun
\* initialises the state again and submits nothing.
Clear ==
  /\ pc = "idle"
  /\ runs < MaxRuns
  /\ runs' = runs + 1
  /\ sess' = InitSess
  /\ pc' = "render"
  /\ UNCHANGED <<Isolated, env, clock, ticks, fetch, sent, RunLocals, Caches>>

\* The run is over (the page is rendered, or the exception is shown) and the
\* session waits for the next interaction; the locals of the run are gone.
EndRun ==
  /\ pc = "end"
  /\ \A t \in Threads : ~Running(t)
  /\ pc' = "idle"
  /\ form' = NoForm
  /\ results' = EmptyList
  /\ warnings' = 0
  /\ exc' = NoExc
  /\ fetch' = [t \in Threads |-> IdleFetch]
  /\ collected' = {}
  /\ sent' = [s \in Sources |-> 0]
  /\ started' = [s \in Sources |-> 0]
  /\ UNCHANGED <<Isolated, env, clock, ticks, runs, sess, Caches>>

\* Time passes while the session waits for the user; on the model's clock a
\* script run, its requests included, takes no time.
Tick(d) ==
  /\ pc = "idle"
  /\ ticks < MaxTicks
  /\ ticks' = ticks + 1
  /\ clock' = clock + d
  /\ UNCHANGED <<Isolated, env, runs, sess, pc, fetch, sent, RunLocals, Caches>>

Next ==
  \/ \E fm \in Forms, provider \in Providers : Submit(fm[1], fm[2], provider)
  \/ \E t \in Threads : fetch_news(t)
  \/ \E t \in Threads : \E o \in Outcomes(fetch[t].source) : make_request(t, o)
  \/ \E s \in Sources : fetch_all_news_collect(s)
  \/ fetch_all_news_return
  \/ SingleReturn
  \/ Post
  \/ Render
  \/ HeadlinesReturn
  \/ Load
  \/ Clear
  \/ EndRun
  \/ \E d \in TickSteps : Tick(d)

Spec == Init /\ [][Next]_vars

(***************************************************************************)
(* normalize_articles, called by itself on a batch of raw records          *)
(***************************************************************************)
\* Records in one batch.
MaxBatch == 2

\* 30 February: the pattern of the format matches, the date does not exist.
TFeb30 ==
  <<"2", "0", "2", "5", "-", "0", "2", "-", "3", "0",
    "T", "0", "9", ":", "0", "0", ":", "0", "5", "Z">>

\* A timestamp of the year 999.
T999 ==
  <<"0", "9", "9", "9", "-", "0", "1", "-", "0", "1",
    "T", "0", "0", ":", "0", "0", ":", "0", "0", "Z">>

\* 6 February 2025 without leading zeros, a small t and a numeric offset.
TLoose ==
  <<"2", "0", "2", "5", "-", "2", "-", "6",
    "t", "9", ":", "0", ":", "5", "+", "0", "5", "3", "0">>

NameBBC == Dict([id |-> None, name |-> Str(<<"B", "B", "C">>)])

\* "title": null, "description": null
RawNNullTitle ==
  Dict([title |-> None, source |-> NameBBC, publishedAt |-> Str(T14),
        description |-> None, url |-> Str(<<"u", "4">>)])

\* "publishedAt": null
RawNNullDate ==
  Dict([title |-> Str(<<"n", "5">>), source |-> NameBBC, publishedAt |-> None])

RawNFeb30 ==
  Dict([title |-> Str(<<"n", "6">>), source |-> NameBBC,
        publishedAt |-> Str(TFeb30)])

RawN999 ==
  Dict([title |-> Str(<<"n", "7">>), source |-> NameBBC,
        publishedAt |-> Str(T999)])

RawNLoose ==
  Dict([title |-> Str(<<"n", "8">>), source |-> NameBBC,
        publishedAt |-> Str(TLoose)])

\* "fields": null
RawGNullFields ==
  Dict([webTitle |-> Str(<<"g", "3">>), webPublicationDate |-> Str(T16),
        fields |-> None])

\* A publication date that is no timestamp.
RawGSoon ==
  Dict([webTitle |-> Str(<<"g", "4">>),
        webPublicationDate |-> Str(<<"s", "o", "o", "n">>)])

\* The raw records a provider may send.
RawRecords(source) ==
  IF source = SrcNEWS
  THEN {RawN16, RawNUndated, RawNNullSource, RawNNullTitle, RawNNullDate,
        RawNFeb30, RawN999, RawNLoose}
  ELSE {RawG16, RawG14, RawGNullFields, RawGSoon}

Batches(source) ==
  UNION {[1..n -> RawRecords(source)] : n \in 0..MaxBatch}

NormalizeInit ==
  /\ InitApp
  /\ env = {}
  /\ \E source \in Sources : \E batch \in Batches(source) :
       call = [status |-> "ready", articles |-> List(batch),
               source |-> source, out |-> None]
  /\ http = IdleHttp

\* normalize_articles(articles, source) runs: out is the list it returns or
\* the exception it raises.
NormalizeCall ==
  /\ call.status = "ready"
  /\ call' = [call EXCEPT !.status = "done",
                          !.out = normalize_articles(call.articles, call.source)]
  /\ UNCHANGED <<app, http>>

NormalizeNext == NormalizeCall

NormalizeSpec == NormalizeInit /\ [][NormalizeNext]_vars

(***************************************************************************)
(* make_request, attempt by attempt: SESSION.get under the Retry mounted   *)
(* on the session, raise_for_status and r.json()                           *)
(*                                                                         *)
(* Retry(total=3, status_forcelist=[...]) leaves connect, read, status and *)
(* other at None, so `total` alone counts the retries, of whatever cause;  *)
(* GET is one of the methods it retries; respect_retry_after_header is     *)
(* True.  The adapter asks the connection pool for no redirects.           *)
(***************************************************************************)
RetryTotal == 3

StatusForcelist == {429, 500, 502, 503, 504}

\* Retry.RETRY_AFTER_STATUS_CODES
RetryAfterStatusCodes == {413, 429, 503}

Responded(status, retryAfter, json) ==
  [kind |-> "response", status |-> status, retryAfter |-> retryAfter,
   json |-> json, error |-> ""]

Errored(e) ==
  [kind |-> "error", status |-> 0, retryAfter |-> FALSE, json |-> FALSE,
   error |-> e]

\* What one attempt can end with: a response (its status, whether it has a
\* Retry-After header, whether its body is JSON), a connection that fails,
\* or a timeout (TIMEOUT seconds, to connect or to read).
AttemptOutcomes ==
  {Responded(200, FALSE, j) : j \in BOOLEAN}
    \cup {Responded(c, r, FALSE) : c \in {404, 413}, r \in BOOLEAN}
    \cup {Responded(c, FALSE, FALSE) : c \in StatusForcelist}
    \cup {Errored(e) : e \in {"ConnectTimeout", "ReadTimeout", "ConnectionError"}}

\* The body of a successful answer.
Body == Dict([status |-> Ok])

\* Retry.is_retry for a GET: a status of the forcelist, or, while total is
\* not 0, a Retry-After header on a status that honours it.
IsRetry(status, retryAfter, total) ==
  \/ status \in StatusForcelist
  \/ total # 0 /\ retryAfter /\ status \in RetryAfterStatusCodes

\* A budget that allows one retry more.
IsExhaustedLate(total) == total < -1

\* Retry.is_exhausted, on the counts left after Retry.increment.
IsExhausted(total) == total < 0

\* r.raise_for_status() and r.json() under the try/except of make_request.
Parsed(o) ==
  IF 400 <= o.status /\ o.status < 600 THEN EmptyDict
  ELSE IF o.json THEN Body
  ELSE EmptyDict

HttpInit ==
  /\ InitApp
  /\ env = {}
  /\ call = IdleCall
  /\ http = IdleHttp

\* make_request is called (no fresh cache entry) and calls SESSION.get.
HttpCall ==
  /\ http.state = "idle"
  /\ http' = [IdleHttp EXCEPT !.state = "sending", !.total = RetryTotal]
  /\ UNCHANGED <<app, call>>

\* One GET is sent and ends with o.  An error, or a response is_retry asks
\* to retry, takes one from total: when that exhausts the budget urlopen
\* raises MaxRetryError, which make_request turns into {}; otherwise the
\* GET is sent again after the backoff.  Any other response goes back to
\* make_request.
HttpAttempt(o) ==
  /\ http.state = "sending"
  /\ LET sent1 == [http EXCEPT !.attempts = @ + 1, !.log = Append(@, o)]
         retry == o.kind = "error" \/ IsRetry(o.status, o.retryAfter, http.total)
     IN  http' =
           IF retry /\ IsExhausted(http.total - 1)
           THEN [sent1 EXCEPT !.state = "done", !.total = @ - 1,
                              !.result = EmptyDict]
           ELSE IF retry
           THEN [sent1 EXCEPT !.total = @ - 1]
           ELSE [sent1 EXCEPT !.state = "done", !.result = Parsed(o)]
  /\ UNCHANGED <<app, call>>

\* make_request has returned; the next call can come.
HttpReturn ==
  /\ http.state = "done"
  /\ http' = IdleHttp
  /\ UNCHANGED <<app, call>>

HttpNext ==
  \/ HttpCall
  \/ \E o \in AttemptOutcomes : HttpAttempt(o)
  \/ HttpReturn

\* Every attempt ends: with a response, an error, or the timeout of
\* TIMEOUT seconds; the sleep between two attempts is finite.
HttpSpec ==
  /\ HttpInit
  /\ [][HttpNext]_vars
  /\ WF_vars(\E o \in AttemptOutcomes : HttpAttempt(o))

(***************************************************************************)
(* Properties                                                              *)
(***************************************************************************)
SearchAll == form.submitted /\ form.provider = ProvAll

SearchSingle == form.submitted /\ form.provider # ProvAll

\* The raw records at the source's path in the data the thread got from
\* make_request.
RawCount(t) ==
  Len(ExtractResults(fetch[t].data, ResultsPath(fetch[t].source)).elems)

\* The thread's request raised, or its task did.
TaskFailed(t) == fetch[t].netFailed \/ fetch[t].status = "failed"

\* The thread's request was answered and its task returned a list.
TaskAnswered(t) ==
  fetch[t].status = "done" /\ fetch[t].data.kind = "dict" /\ ~fetch[t].netFailed

\* The source added nothing to the merged list.
ContributedNothing(s) == fetch[s].status = "failed" \/ fetch[s].ret = EmptyList

\* C1: with "All" selected fetch_all_news starts exactly one task per source
\* and has returned only when every task has completed or failed: past the
\* return no worker is still running, whatever the other worker did.
C1_JoinAll ==
  /\ \A s \in Sources : started[s] = (IF SearchAll THEN 1 ELSE 0)
  /\ \A s \in Sources : Running(s) => pc = "all"
  /\ SearchAll /\ pc \in {"post", "render", "headlines", "end"}
       => \A s \in Sources : Ended(s)

\* fetch_all_news has returned the articles of NEWS although the GUARDIAN
\* task raised.
C1_Witness ==
  /\ SearchAll
  /\ pc = "post"
  /\ fetch[SrcGUARDIAN].status = "failed"
  /\ fetch[SrcNEWS].status = "done"
  /\ results # EmptyList

\* C2: in an "All" search where one source fails (its request raises or its
\* task raises) and the other answers with N records, no exception leaves
\* fetch_all_news and it returns exactly N articles.
C2_OneProviderFails ==
  \A s1, s2 \in Sources :
    ( /\ SearchAll
      /\ s1 # s2
      /\ Ended(s1) /\ Ended(s2)
      /\ TaskFailed(s1)
      /\ TaskAnswered(s2) )
    => /\ exc.at # "search"
       /\ pc # "all" => /\ results.kind = "list"
                        /\ Len(results.elems) = RawCount(s2)

\* The GUARDIAN request raised, NEWS answered with two records, and both
\* are in the list fetch_all_news returned.
C2_Witness ==
  /\ SearchAll
  /\ pc = "post"
  /\ fetch[SrcGUARDIAN].netFailed
  /\ fetch[SrcGUARDIAN].status = "failed"
  /\ TaskAnswered(SrcNEWS)
  /\ RawCount(SrcNEWS) = 2
  /\ Len(results.elems) = 2

\* A key of the path is missing in the dict, at the first level or below.
RECURSIVE PathKeyMissing(_, _)
PathKeyMissing(data, path) ==
  /\ path # <<>>
  /\ data.kind = "dict"
  /\ \/ Head(path) \notin DOMAIN data.items
     \/ PathKeyMissing(data.items[Head(path)], Tail(path))

\* C3: for every source and every dict make_request returned, the extraction
\* of fetch_news does not raise, and yields the empty list when a key of the
\* source's path is missing at any level.
C3_ExtractionNeverRaises ==
  \A t \in Threads :
    fetch[t].data.kind = "dict"
    => LET x == ExtractResults(fetch[t].data, ResultsPath(fetch[t].source))
       IN  /\ ~IsRaise(x)
           /\ PathKeyMissing(fetch[t].data, ResultsPath(fetch[t].source))
                => x = EmptyList

\* C4: when a single provider is selected and its request fails, fetch_news
\* returns the empty list and raises nothing.
C4_SingleFailureIsEmpty ==
  ( /\ SearchSingle
    /\ pc \in {"single", "post"}
    /\ Ended(MainThread)
    /\ fetch[MainThread].netFailed )
  => /\ fetch[MainThread].status = "done"
     /\ fetch[MainThread].ret = EmptyList

PublishedOf(list) == {Published(list.elems[i]) : i \in 1..Len(list.elems)}

\* C5: a merged list whose published values are "2025-02-16", "2025-02-14"
\* and "Unknown Date" is stored with "2025-02-16" first and "Unknown Date"
\* last.
C5_UnknownDateLast ==
  ( /\ form.submitted
    /\ pc = "render"
    /\ Len(results.elems) = 3
    /\ PublishedOf(results) = {Str(D16), Str(D14), UnknownDate} )
  => /\ Published(sess.articles.elems[1]) = Str(D16)
     /\ Published(sess.articles.elems[3]) = UnknownDate

Injective(p) == \A i, j \in DOMAIN p : p[i] = p[j] => i = j

\* a is r rearranged so that published never increases and articles with
\* equal published keep the order they had in r.
StableDescendingOf(a, r) ==
  /\ Len(a) = Len(r)
  /\ \A i \in 1..(Len(a) - 1) :
       ~StrLess(Published(a[i]).chars, Published(a[i + 1]).chars)
  /\ \E p \in [1..Len(a) -> 1..Len(a)] :
       /\ Injective(p)
       /\ \A i \in 1..Len(a) : a[i] = r[p[i]]
       /\ \A i, j \in 1..Len(a) :
            i < j /\ Published(a[i]) = Published(a[j]) => p[i] < p[j]

\* C6: the list stored after a successful search is in descending order of
\* published under string comparison, and it is the merged list sorted
\* stably: articles with equal published keep their merged order.
C6_StableDescending ==
  /\ sess.articles.kind = "list"
       => \A i \in 1..(Len(sess.articles.elems) - 1) :
            ~StrLess(Published(sess.articles.elems[i]).chars,
                     Published(sess.articles.elems[i + 1]).chars)
  /\ form.submitted /\ pc = "render" /\ HasResults(results)
       => /\ sess.articles.kind = "list"
          /\ StableDescendingOf(sess.articles.elems, results.elems)

\* A stored list in which two different articles share a published value.
C6_Witness ==
  /\ form.submitted
  /\ pc = "render"
  /\ Len(results.elems) = 4
  /\ sess.articles.kind = "list"
  /\ \E i, j \in 1..Len(sess.articles.elems) :
       /\ i < j
       /\ sess.articles.elems[i] # sess.articles.elems[j]
       /\ Published(sess.articles.elems[i]) = Published(sess.articles.elems[j])

\* C7: two successive fetch_news calls with the same (source, query), the
\* second made less than TTL seconds after the first, make at most one
\* network request between them.
C7_OneRequestWithinTTL ==
  \A t \in Threads :
    Ended(t) /\ fetch[t].prevAt >= 0 /\ fetch[t].start - fetch[t].prevAt < TTL
    => fetch[t].prevReqs + fetch[t].reqs <= 1

\* The first call made the request, the second is served from the cache one
\* second before the entry expires.
C7_Witness ==
  \E t \in Threads :
    /\ Ended(t)
    /\ fetch[t].prevAt >= 0
    /\ fetch[t].start - fetch[t].prevAt = TTL - 1
    /\ fetch[t].prevReqs = 1
    /\ fetch[t].reqs = 0
    /\ fetch[t].servedIns >= 0
    /\ fetch[t].ret # EmptyList

\* C8: an entry is served only less than TTL seconds after its insertion,
\* and the first access after its expiry recomputes the value and stores it
\* with the time of that access as its insertion time.
C8_ExpiryAndRefresh ==
  \A t \in Threads :
    Ended(t)
    => /\ fetch[t].servedIns >= 0 => fetch[t].start < fetch[t].servedIns + TTL
       /\ fetch[t].expired
            => LET e == Lookup(newsCache, <<fetch[t].source, fetch[t].query>>)
               IN  e.present /\ e.ins = fetch[t].start

\* C9: a source whose API key variable is not set is never sent a request,
\* and every fetch_news call for it returns the empty list and raises
\* nothing, in a single search and in an "All" search.
C9_NoKeyNoRequest ==
  \A s \in Sources :
    ApiKeyVar(s) \notin env
    => /\ sent[s] = 0
       /\ \A t \in Threads :
            fetch[t].source = s
            => /\ fetch[t].status \in {"queued", "done"}
               /\ fetch[t].reqs = 0
               /\ Ended(t) => fetch[t].ret = EmptyList

\* An "All" search without the NEWS key: the NEWS task returned nothing and
\* GUARDIAN's articles are the result.
C9_Witness ==
  /\ SearchAll
  /\ pc = "post"
  /\ ApiKeyVar(SrcNEWS) \notin env
  /\ ApiKeyVar(SrcGUARDIAN) \in env
  /\ fetch[SrcNEWS].status = "done"
  /\ fetch[SrcNEWS].ret = EmptyList
  /\ results # EmptyList

\* C10: when every source contributes nothing to an "All" search, the
\* merged list is empty, main warns exactly once and neither the aggregation
\* nor the handling of its result raises.
C10_AllEmptyWarnsOnce ==
  (SearchAll /\ pc # "all" /\ \A s \in Sources : ContributedNothing(s))
  => /\ results = EmptyList
     /\ exc.at \notin {"search", "post"}
     /\ warnings = (IF pc = "post" THEN 0 ELSE 1)

\* NEWS has no key, the GUARDIAN task raised, and the run has warned once.
C10_Witness ==
  /\ SearchAll
  /\ pc = "end"
  /\ ApiKeyVar(SrcNEWS) \notin env
  /\ fetch[SrcGUARDIAN].status = "failed"
  /\ results = EmptyList
  /\ warnings = 1

\* The list the source's task returned, as fetch_all_news sees it: nothing
\* for a task that raised.
Returned(s) == IF fetch[s].status = "done" THEN fetch[s].ret.elems ELSE <<>>

\* How often x occurs in the sequence xs.
Count(xs, x) == Cardinality({i \in 1..Len(xs) : xs[i] = x})

Url(a) == a.items.url

\* C11: the list fetch_all_news returns is the lists of the tasks that
\* succeeded, one after the other in some order of the tasks: its length is
\* the sum of their lengths and every article occurs in it as often as the
\* tasks returned it, also an article whose url another article has.
C11_PlainConcatenation ==
  (SearchAll /\ pc \in {"post", "render", "headlines", "end"} /\ exc.at # "search")
  => /\ results.kind = "list"
     /\ \/ results.elems = Returned(SrcNEWS) \o Returned(SrcGUARDIAN)
        \/ results.elems = Returned(SrcGUARDIAN) \o Returned(SrcNEWS)
     /\ Len(results.elems) = Len(Returned(SrcNEWS)) + Len(Returned(SrcGUARDIAN))
     /\ \A s \in Sources : \A i \in 1..Len(Returned(s)) :
          Count(results.elems, Returned(s)[i])
            = Count(Returned(SrcNEWS), Returned(s)[i])
                + Count(Returned(SrcGUARDIAN), Returned(s)[i])

\* Both tasks returned two articles, GUARDIAN's were collected first, and
\* the merged list has all four, two of them with the same url.
C11_Witness ==
  /\ SearchAll
  /\ pc = "post"
  /\ Len(Returned(SrcNEWS)) = 2
  /\ Len(Returned(SrcGUARDIAN)) = 2
  /\ results.elems = Returned(SrcGUARDIAN) \o Returned(SrcNEWS)
  /\ \E i, j \in 1..4 : i # j /\ Url(results.elems[i]) = Url(results.elems[j])

\* The bad field of a record replaced by its fallback: a null `source` or
\* `fields` counts as a missing one.
Repaired(art) ==
  Dict([k \in {j \in DOMAIN art.items :
                 ~(j \in {"source", "fields"} /\ art.items[j].kind = "null")}
          |-> art.items[k]])

\* C12: a malformed record never aborts the normalization of its batch:
\* normalize_articles raises nothing and returns one article per record,
\* the article of a record being what the record would give alone, with the
\* fallback in the place of a nested field of unexpected shape.
C12_BadRecordKeepsBatch ==
  call.status = "done"
  => /\ ~IsRaise(call.out)
     /\ Len(call.out.elems) = Len(call.articles.elems)
     /\ \A i \in 1..Len(call.articles.elems) :
          call.out.elems[i]
            = NormalizeOne(Repaired(call.articles.elems[i]), call.source)

\* The key of the provider's timestamp in a raw record.
TimestampKey(source) ==
  IF source = SrcNEWS THEN "publishedAt" ELSE "webPublicationDate"

\* YYYY-MM-DD: a year of four digits, a month and a day of two.
IsoDate(dt) ==
  <<DigitChar(dt.year \div 1000), DigitChar((dt.year \div 100) % 10),
    DigitChar((dt.year \div 10) % 10), DigitChar(dt.year % 10)>>
  \o <<"-">> \o Pad2(dt.month) \o <<"-">> \o Pad2(dt.day)

\* C14: the published field of a normalized record is "Unknown Date" when
\* the record has no timestamp, the YYYY-MM-DD date of the timestamp when it
\* parses in the format %Y-%m-%dT%H:%M:%S%z, and the raw string as it is when
\* it does not parse.
C14_PublishedNormalized ==
  (call.status = "done" /\ ~IsRaise(call.out))
  => \A i \in 1..Len(call.articles.elems) :
       LET art == call.articles.elems[i].items
           key == TimestampKey(call.source)
           p == Published(call.out.elems[i])
       IN  /\ key \notin DOMAIN art => p = UnknownDate
           /\ key \in DOMAIN art /\ IsStr(art[key])
                => IF Strptime(art[key].chars).ok
                   THEN p = Str(IsoDate(Strptime(art[key].chars)))
                   ELSE p = art[key]

CanonicalFields == {"title", "author", "published", "description", "url"}

\* C15: every article normalize_articles returns has the five canonical
\* fields, each holding a string, whatever the raw record omits or holds as
\* null.
C15_FiveStringFields ==
  (call.status = "done" /\ ~IsRaise(call.out))
  => \A i \in 1..Len(call.out.elems) :
       LET a == call.out.elems[i]
       IN  /\ a.kind = "dict"
           /\ CanonicalFields \subseteq DOMAIN a.items
           /\ \A k \in CanonicalFields : IsStr(a.items[k])

\* The attempts of the call that were followed by another attempt.
Retried == {i \in 1..Len(http.log) : i < Len(http.log) \/ http.state = "sending"}

Last(xs) == xs[Len(xs)]

\* The call has ended, and with what the claim says: the body of a
\* successful response, or {}.
EndsAsClaimed ==
  http.state = "done"
  => /\ http.result \in {Body, EmptyDict}
     /\ http.result = Body
          <=> /\ Last(http.log).kind = "response"
              /\ Last(http.log).status = 200
              /\ Last(http.log).json

\* C13 as stated: one make_request call sends at most 4 GETs, sends a GET
\* again only after a response with status 429, 500, 502, 503 or 504, and ends
\* with the JSON body of a successful response or with {}.
C13_RetriesOnlyOnStatus ==
  /\ http.attempts <= 4
  /\ \A i \in Retried :
       /\ http.log[i].kind = "response"
       /\ http.log[i].status \in {429, 500, 502, 503, 504}
  /\ EndsAsClaimed

\* C13, amended: at most 4 GETs; a GET is sent again after a response with
\* status 429, 500, 502, 503 or 504, after a 413, 429 or 503 that carries
\* Retry-After, and after a connection error or a timeout; the call ends with
\* the JSON body of a successful response or with {}; and it always ends.
C13_BoundedRetries ==
  /\ [](/\ http.attempts <= 4
        /\ \A i \in Retried :
             \/ http.log[i].kind = "error"
             \/ http.log[i].status \in {429, 500, 502, 503, 504}
             \/ http.log[i].retryAfter /\ http.log[i].status \in {413, 429, 503}
        /\ EndsAsClaimed)
  /\ (http.state = "sending" ~> http.state = "done")

\* A timeout, a 503 and a 413 with Retry-After were each retried, and the
\* fourth GET brought the body.
C13_Witness ==
  /\ http.state = "done"
  /\ http.attempts = 4
  /\ http.log[1] = Errored("ReadTimeout")
  /\ http.log[2] = Responded(503, FALSE, FALSE)
  /\ http.log[3] = Responded(413, TRUE, FALSE)
  /\ http.result = Body

\* The sources a fetch_news call of this run has been issued to.
Fetched == {fetch[t].source : t \in {u \in Threads : fetch[u].status # "idle"}}

\* C16: from the submission of a search with a single provider selected
\* until the page is rendered, fetch_news is called for that provider only
\* and no request goes to another one, whatever the provider returned.
C16_OnlySelectedProvider ==
  (SearchSingle /\ pc \in {"single", "post", "render", "headlines", "end"})
  => /\ Fetched \subseteq {Upper(form.provider)}
     /\ \A s \in Sources \ {Upper(form.provider)} :
          sent[s] = 0 /\ started[s] = 0

\* C17: the list an "All" search stores is fixed by what the providers
\* answered: in every interleaving it is the list that the order NEWS,
\* GUARDIAN of the task list gives, also when articles of the two providers
\* have the same published value.
C17_OrderIndependent ==
  (SearchAll /\ pc = "render" /\ Truthy(results))
  => sess.articles
       = SortedDesc(List(Returned(SrcNEWS) \o Returned(SrcGUARDIAN)))

\* The thread's fetch_news call has called make_request.
CalledMakeRequest(t) ==
  fetch[t].status = "net" \/ (Ended(t) /\ fetch[t].data # None)

\* C18: a failure is cached like a success.  The make_request call whose
\* request fails returns {}, and every make_request call with the same
\* arguments made less than TTL seconds after the failed request returns {}
\* and sends no request.
C18_FailureCached ==
  \A t \in Threads :
    /\ fetch[t].netFailed => fetch[t].data = EmptyDict
    /\ ( /\ CalledMakeRequest(t)
         /\ fetch[t].prevFailAt >= 0
         /\ fetch[t].start - fetch[t].prevFailAt < TTL )
       => /\ fetch[t].reqs = 0
          /\ fetch[t].data = EmptyDict

\* The request for GUARDIAN failed; one second before the entry expires the
\* same call is answered with {} from the cache.
C18_Witness ==
  \E t \in Threads :
    /\ Ended(t)
    /\ fetch[t].prevFailAt >= 0
    /\ fetch[t].start - fetch[t].prevFailAt = TTL - 1
    /\ fetch[t].reqs = 0
    /\ fetch[t].data = EmptyDict

\* C19: a submitted search with an empty result list leaves the session
\* state as it was and only warns; the stored keyword and articles change
\* only when a search has returned at least one article, or by Clear.
C19_EmptySearchKeepsState ==
  [][/\ (pc = "post" /\ results = EmptyList)
          => sess' = sess /\ warnings' = warnings + 1 /\ exc' = exc
     /\ sess' # sess
          => \/ /\ pc = "post"
                /\ form.submitted
                /\ Len(results.elems) >= 1
             \/ /\ pc = "idle"
                /\ ~form'.submitted
                /\ sess' = InitSess]_vars

\* A search that found nothing has warned, and the keyword and the articles
\* of the search before it are still stored.
C19_Witness ==
  /\ form.submitted
  /\ pc = "render"
  /\ results = EmptyList
  /\ warnings = 1
  /\ sess.articles.kind = "list"
  /\ sess.kw # form.kw

====
